---- MODULE Spec2Model ----
(***************************************************************************)
(* Round-based ranked-choice tabulation of easyrcv:                        *)
(*   src/src/easyrcv/tabulate.py  (BallotSet, Tabulator)                   *)
(*   src/src/easyrcv/config.py    (TabulatorRules)                         *)
(* Vote weights are values of rules.T, kept as pairs <<numerator,           *)
(* denominator>>: exact rationals in lowest terms (fractions.Fraction), or *)
(* decimals of at most prec digits over a power of ten (decimal.Decimal    *)
(* under the context tabulate sets: prec = 4, ROUND_DOWN).                 *)
(***************************************************************************)
EXTENDS Integers, Sequences, FiniteSets, TLC

VARIABLES
    ballot_records,   \* the input table: one row of rank entries per ballot
    rules,            \* TabulatorRules
    df,               \* BallotSet.df: per ballot cur_rank_i, cur_candidate, vote_remaining
    threshold,        \* Tabulation.threshold
    winners,          \* Tabulation.winners (cumulative, a list)
    losers,           \* Tabulation.losers (cumulative, a list)
    rounds,           \* Tabulation.rounds (list of TabulationRound)
    pc,               \* position in Tabulator.tabulate
    output            \* the "results" list of brightspots_output, once built

vars == <<ballot_records, rules, df, threshold, winners, losers, rounds, pc, output>>

(***************************************************************************)
(* Bounds of the model.                                                    *)
(***************************************************************************)
NumBallots == 4
MaxWinners == 3
MaxRounds == 4

\* The candidate roster, in the order pandas sorts the labels.
CandidateOrder == <<"A", "B", "C">>
Candidates == {CandidateOrder[i] : i \in 1..Len(CandidateOrder)}

\* The rank columns of the enumerated ballot tables.
ranks == <<"rank1", "rank2">>
\* the number of rank columns of the table handed to Tabulator.tabulate
K == Len(ballot_records[1])

\* What a cell of the ballot table may hold.
CellOrder == CandidateOrder \o <<"undervote">>
\* every label a ballot can rest on, in pandas' sort order of the labels
LabelOrder == CandidateOrder \o <<"UWI", "exhausted", "overvote", "undervote">>
Cells == {CellOrder[i] : i \in 1..Len(CellOrder)}

\* the index of the ballot table
Ballots == DOMAIN ballot_records

(***************************************************************************)
(* Exact rational arithmetic (fractions.Fraction).                         *)
(***************************************************************************)
Abs(x) == IF x < 0 THEN -x ELSE x

RECURSIVE GCD(_, _)
GCD(a, b) == IF b = 0 THEN a ELSE GCD(b, a % b)

\* Fraction(n, d), d # 0: lowest terms, positive denominator.
Fraction(n, d) ==
    LET g == GCD(Abs(n), Abs(d))
        s == IF d < 0 THEN -1 ELSE 1
    IN  <<(s * n) \div g, (s * d) \div g>>

Zero == Fraction(0, 1)
One == Fraction(1, 1)
FromInt(i) == Fraction(i, 1)

Add(x, y) == Fraction(x[1] * y[2] + y[1] * x[2], x[2] * y[2])
Sub(x, y) == Fraction(x[1] * y[2] - y[1] * x[2], x[2] * y[2])
Mul(x, y) == Fraction(x[1] * y[1], x[2] * y[2])
\* y # Zero (ZeroDivisionError otherwise; callers guard)
Div(x, y) == Fraction(x[1] * y[2], x[2] * y[1])
Less(x, y) == x[1] * y[2] < y[1] * x[2]
Leq(x, y) == x[1] * y[2] <= y[1] * x[2]
\* math.ceil
Ceil(x) == -((-x[1]) \div x[2])

(***************************************************************************)
(* decimal.Decimal under the context of tabulate 137-138. A value is the   *)
(* pair <<coefficient, 10^e>> for coefficient * 10^-e, without trailing    *)
(* zeros behind the point. Every operation rounds its exact result toward  *)
(* zero to prec significant digits.                                        *)
(***************************************************************************)
\* decimal.getcontext().prec
prec == 4

RECURSIVE Pow(_, _)
Pow(b, e) == IF e = 0 THEN 1 ELSE b * Pow(b, e - 1)

RECURSIVE Log10(_)
\* the e of a power of ten 10^e
Log10(p) == IF p = 1 THEN 0 ELSE 1 + Log10(p \div 10)

RECURSIVE Digits(_)
\* the number of digits of c >= 0
Digits(c) == IF c = 0 THEN 0 ELSE 1 + Digits(c \div 10)

RECURSIVE Strip(_, _)
Strip(c, e) == IF e > 0 /\ c % 10 = 0 THEN Strip(c \div 10, e - 1) ELSE <<c, e>>

\* the context's rounding of n * 10^-e: the coefficient cut to prec digits
Decimal(n, e) ==
    LET c == Abs(n)
        j == IF Digits(c) > prec THEN Digits(c) - prec ELSE 0
        cut == c \div Pow(10, j)
        s == IF e - j >= 0 THEN Strip(cut, e - j) ELSE <<cut * Pow(10, j - e), 0>>
    IN  <<(IF n < 0 THEN -1 ELSE 1) * s[1], Pow(10, s[2])>>

RECURSIVE Pad(_, _)
\* c * 10^-e, c > 0, written with at least prec digits
Pad(c, e) == IF c >= Pow(10, prec - 1) THEN <<c, e>> ELSE Pad(c * 10, e + 1)

\* Decimal.__add__ for x, y >= 0. The operand of the higher place is a whole
\* number of units of its last padded digit and the sum keeps no digit below
\* that unit, so the other operand is cut to the unit before the addition.
dec_add(x, y) ==
    IF x[1] = 0 THEN y
    ELSE IF y[1] = 0 THEN x
    ELSE LET a == Pad(x[1], Log10(x[2]))
             b == Pad(y[1], Log10(y[2]))
             e == IF a[2] < b[2] THEN a[2] ELSE b[2]
         IN  Decimal((a[1] \div Pow(10, a[2] - e)) + (b[1] \div Pow(10, b[2] - e)), e)

\* Decimal.__sub__
dec_sub(x, y) ==
    LET ex == Log10(x[2])
        ey == Log10(y[2])
        e == IF ex > ey THEN ex ELSE ey
    IN  Decimal(x[1] * Pow(10, e - ex) - y[1] * Pow(10, e - ey), e)

\* Decimal.__mul__
dec_mul(x, y) == Decimal(x[1] * y[1], Log10(x[2]) + Log10(y[2]))

RECURSIVE Shift(_, _, _)
\* the least k >= n with a * 10^k / b of at least prec digits (a, b > 0)
Shift(a, b, n) == IF a * Pow(10, n) >= b * Pow(10, prec - 1) THEN n ELSE Shift(a, b, n + 1)

\* Decimal.__truediv__ for x >= 0, y > 0
dec_div(x, y) ==
    IF x[1] = 0 THEN x
    ELSE LET k == Shift(x[1], y[1], 0)
         IN  Decimal((x[1] * Pow(10, k)) \div y[1], k + Log10(x[2]) - Log10(y[2]))

(***************************************************************************)
(* rules.T (config.py 188-197): Fraction for decimal_places_for_vote_      *)
(* arithmetic = -1, Decimal for n >= 1; the operators of the type.         *)
(***************************************************************************)
T_is_Decimal == rules.decimal_places_for_vote_arithmetic >= 1

T_add(x, y) == IF T_is_Decimal THEN dec_add(x, y) ELSE Add(x, y)
T_sub(x, y) == IF T_is_Decimal THEN dec_sub(x, y) ELSE Sub(x, y)
T_mul(x, y) == IF T_is_Decimal THEN dec_mul(x, y) ELSE Mul(x, y)
T_div(x, y) == IF T_is_Decimal THEN dec_div(x, y) ELSE Div(x, y)

RECURSIVE SumOver(_, _)
\* sum of f[e] over the finite set S
SumOver(f, S) ==
    IF S = {} THEN Zero
    ELSE LET e == CHOOSE e \in S : TRUE
         IN  Add(f[e], SumOver(f, S \ {e}))

(***************************************************************************)
(* BallotSet (tabulate.py 24-86).                                          *)
(***************************************************************************)
\* _choice_lookup as it would be if every rank column held the first choice
choice_lookup_first_rank(b, i) ==
    IF i = K THEN "exhausted" ELSE ballot_records[b][1]

\* _choice_lookup: the rank columns followed by one "exhausted" column.
\* i is the 0-based _cur_rank_i; i > K is numpy's IndexError (callers guard).
choice_lookup(b, i) ==
    IF i = K THEN "exhausted" ELSE ballot_records[b][i + 1]

\* BallotSet.__init__
BallotSet(initial_vote_value) ==
    [b \in Ballots |->
        [cur_rank_i |-> 0,
         cur_candidate |-> ballot_records[b][1],
         vote_remaining |-> initial_vote_value]]

\* BallotSet.skip_to_next_rank: cvr_mask is the set of ballots to advance.
skip_to_next_rank(d, cvr_mask) ==
    [b \in Ballots |->
        LET i == d[b].cur_rank_i + (IF b \in cvr_mask THEN 1 ELSE 0)
        IN  [d[b] EXCEPT !.cur_rank_i = i,
                         !.cur_candidate = choice_lookup(b, i)]]

\* is_exhausted as it would be if no ballot were ever reported exhausted
is_exhausted_none(d) == {}

is_exhausted(d) == {b \in Ballots : d[b].cur_candidate = "exhausted"}

RECURSIVE running_rows(_, _, _, _)
\* the running totals s of the weights of the rows picked by cvr_mask (entry
\* k + 1 is the total after row k) continued through row n, row after row.
\* The rows still to add are added in two halves, the first half first, which
\* keeps the evaluation shallow on a long table; the order of the additions
\* is the order of the rows.
running_rows(d, cvr_mask, s, n) ==
    IF Len(s) > n THEN s
    ELSE IF Len(s) = n
    THEN Append(s, IF n \in cvr_mask
                   THEN T_add(s[n], d[n].vote_remaining)
                   ELSE s[n])
    ELSE running_rows(d, cvr_mask,
                      running_rows(d, cvr_mask, s, (Len(s) + n) \div 2), n)

\* the weights of the rows 1..n picked by cvr_mask, added up row after row
sum_rows(d, cvr_mask, n) == running_rows(d, cvr_mask, <<Zero>>, n)[n + 1]

\* BallotSet.sum_votes; also the sum of one group of a groupby
sum_votes(d, cvr_mask) == sum_rows(d, cvr_mask, Cardinality(Ballots))

\* BallotSet.tally_votes: groupby("cur_candidate") over non-exhausted ballots;
\* only labels some ballot currently holds become keys.
tally_votes(d) ==
    LET live == Ballots \ is_exhausted(d)
        keys == {d[b].cur_candidate : b \in live}
    IN  [c \in keys |-> sum_votes(d, {b \in live : d[b].cur_candidate = c})]

RECURSIVE sum_series(_, _, _)
\* the first n entries of the series t with index idx, added up in order
sum_series(t, idx, n) ==
    IF n = 0 THEN Zero ELSE T_add(sum_series(t, idx, n - 1), t[idx[n]])

\* Series.sum() of a tally, whose index holds the labels in sorted order
TallySum(t) ==
    LET idx == SelectSeq(LabelOrder, LAMBDA c : c \in DOMAIN t)
    IN  sum_series(t, idx, Len(idx))

(***************************************************************************)
(* TabulatorRules (config.py 199-227).                                     *)
(***************************************************************************)
SeqToSet(s) == {s[i] : i \in 1..Len(s)}

\* find_ineligible as it would be if the decided candidates were left out
find_ineligible_sentinels(d, ignore_candidates) ==
    {b \in Ballots : d[b].cur_candidate \in {"undervote", "overvote"}}

\* find_ineligible as it would be if the sentinels were left out
find_ineligible_decided(d, ignore_candidates) ==
    {b \in Ballots : d[b].cur_candidate \in SeqToSet(ignore_candidates)}

find_ineligible(d, ignore_candidates) ==
    {b \in Ballots :
        d[b].cur_candidate \in {"undervote", "overvote"} \cup SeqToSet(ignore_candidates)}

\* skip_to_next_eligible_rank as it would be if the loop ran one pass only
skip_to_next_eligible_rank_one_pass(d, ignore_candidates) ==
    skip_to_next_rank(d, find_ineligible(d, ignore_candidates))

RECURSIVE skip_to_next_eligible_rank(_, _)
\* the while loop: advance every ineligible ballot by one rank until none is left
skip_to_next_eligible_rank(d, ignore_candidates) ==
    LET is_ineligible == find_ineligible(d, ignore_candidates)
    IN  IF is_ineligible = {} THEN d
        ELSE skip_to_next_eligible_rank(
                 skip_to_next_rank(d, is_ineligible), ignore_candidates)

\* TabulatorRules.threshold fails with ZeroDivisionError on a zero divisor
threshold_divisor(r, ws) ==
    LET remaining_winners == r.number_of_winners - Len(ws)
    IN  IF r.hare_quota THEN remaining_winners ELSE 1 + remaining_winners

\* TabulatorRules.threshold as it would be with the division turned into a
\* multiplication
rules_threshold_mul(r, d, ws) ==
    LET eligible_votes == TallySum(tally_votes(d))
    IN  T_mul(eligible_votes, FromInt(threshold_divisor(r, ws)))

\* TabulatorRules.threshold: the quota as a Fraction
rules_threshold(r, d, ws) ==
    LET eligible_votes == TallySum(tally_votes(d))
    IN  T_div(eligible_votes, FromInt(threshold_divisor(r, ws)))

\* TabulatorRules.threshold of src/config.py, the rules pyrcv's Tabulator
\* calls: both branches divide by 1 + remaining_winners
config_threshold(r, eligible_votes, remaining_winners) ==
    IF r.hare_quota
    THEN Div(eligible_votes, FromInt(1 + remaining_winners))
    ELSE Div(eligible_votes, FromInt(1 + remaining_winners))

\* the index of a tally: groupby sorts the keys
Index(t) == SelectSeq(LabelOrder, LAMBDA c : c \in DOMAIN t)

\* select_winners as it would be with >= in place of >
select_winners_at_least(vote_totals, vote_threshold) ==
    SelectSeq(Index(vote_totals), LAMBDA c : Leq(vote_threshold, vote_totals[c]))

\* select_winners as it would be if it kept only the first label above the threshold
select_winners_first_only(vote_totals, vote_threshold) ==
    LET above == SelectSeq(Index(vote_totals),
                           LAMBDA c : Less(vote_threshold, vote_totals[c]))
    IN  IF above = <<>> THEN <<>> ELSE <<Head(above)>>

\* TabulatorRules.select_winners: totals strictly above the threshold, in index order
select_winners(vote_totals, vote_threshold) ==
    SelectSeq(Index(vote_totals), LAMBDA c : Less(vote_threshold, vote_totals[c]))

RECURSIVE SortedValues(_, _)
\* Series.sort_values(): the totals of the keys S in ascending order
SortedValues(t, S) ==
    IF S = {} THEN <<>>
    ELSE LET m == CHOOSE c \in S : \A e \in S : Leq(t[c], t[e])
         IN  <<t[m]>> \o SortedValues(t, S \ {m})

RECURSIVE Cumsum(_, _)
\* Series.cumsum(): the running totals of the first n entries of vs
Cumsum(vs, n) ==
    IF n = 0 THEN <<>>
    ELSE LET prev == Cumsum(vs, n - 1)
         IN  Append(prev, IF n = 1 THEN vs[1] ELSE T_add(prev[n - 1], vs[n]))

RECURSIVE TakeMasked(_, _, _)
\* Index.__getitem__ with a boolean key: the key is applied by POSITION
TakeMasked(idx, mask, n) ==
    IF n = 0 THEN <<>>
    ELSE LET rest == TakeMasked(idx, mask, n - 1)
         IN  IF mask[n] THEN Append(rest, idx[n]) ELSE rest

\* Lowest as it would be with the totals sorted in descending order
Highest(t) == {c \in DOMAIN t : \A e \in DOMAIN t : Leq(t[e], t[c])}

\* the labels with the lowest total
Lowest(t) == {c \in DOMAIN t : \A e \in DOMAIN t : Leq(t[c], t[e])}

\* sort_values().index[0] as it would be if the sort left the place of tied
\* labels open
FirstOfSortedAnyTied(t) == Lowest(t)

\* sort_values().index[0]: the default sort (numpy quicksort) orders runs of
\* at most 16 entries by insertion, so labels with equal totals keep their
\* index order and the first label is the first of the lowest in the index.
\* Empty on an empty tally (IndexError).
FirstOfSorted(t) ==
    LET low == SelectSeq(Index(t), LAMBDA c : c \in Lowest(t))
    IN  IF low = <<>> THEN {} ELSE {Head(low)}

\* TabulatorRules.select_losers: the list the call returns, as a set of one
\* list (empty: IndexError on index[0] of an empty tally)
select_losers(r, vote_totals, vote_threshold) ==
    IF r.batch_elimination
    THEN LET idx == Index(vote_totals)
             cs == Cumsum(SortedValues(vote_totals, DOMAIN vote_totals), Len(idx))
             cannot_win == [k \in 1..Len(idx) |-> Less(cs[k], vote_threshold)]
         IN  {TakeMasked(idx, cannot_win, Len(idx))}
    ELSE {<<c>> : c \in FirstOfSorted(vote_totals)}

RECURSIVE skip_cvrs_with_choices(_, _)
\* pyrcv's CvrStatus.skip_cvrs_with_choices: the same loop over the listed
\* choices alone (the caller lists the sentinels)
skip_cvrs_with_choices(d, choices) ==
    LET matching_cvrs == {b \in Ballots : d[b].cur_candidate \in SeqToSet(choices)}
    IN  IF matching_cvrs = {} THEN d
        ELSE skip_cvrs_with_choices(skip_to_next_rank(d, matching_cvrs), choices)

(***************************************************************************)
(* Tabulator (tabulate.py 131-204).                                        *)
(***************************************************************************)
RECURSIVE scale_winners_keep_quota(_, _, _, _)
\* scale_winners as it would be if the ballots kept the quota's share
\* (threshold / total) instead of the surplus share
scale_winners_keep_quota(d, vote_totals, vote_threshold, ws) ==
    IF ws = <<>> THEN d
    ELSE LET winner == Head(ws)
             ratio == Div(vote_threshold, vote_totals[winner])
             scaled == [b \in Ballots |->
                 IF d[b].cur_candidate = winner
                 THEN [d[b] EXCEPT !.vote_remaining = Mul(@, ratio)]
                 ELSE d[b]]
         IN  scale_winners_keep_quota(scaled, vote_totals, vote_threshold, Tail(ws))

\* scale_winners as it would be if the surplus share were never applied
scale_winners_unscaled(d, vote_totals, vote_threshold, ws) == d

RECURSIVE scale_winners_every_ballot(_, _, _, _)
\* scale_winners as it would be if each winner's surplus share were applied
\* to every ballot, not only to the ballots on that winner
scale_winners_every_ballot(d, vote_totals, vote_threshold, ws) ==
    IF ws = <<>> THEN d
    ELSE LET winner == Head(ws)
             excess_votes == T_sub(vote_totals[winner], vote_threshold)
             excess_vote_ratio == T_div(excess_votes, vote_totals[winner])
             scaled == [b \in Ballots |->
                 [d[b] EXCEPT !.vote_remaining = T_mul(@, excess_vote_ratio)]]
         IN  scale_winners_every_ballot(scaled, vote_totals, vote_threshold, Tail(ws))

RECURSIVE scale_winners(_, _, _, _)
\* tabulate_round 167-175: every ballot on a winner keeps the surplus share
scale_winners(d, vote_totals, vote_threshold, ws) ==
    IF ws = <<>> THEN d
    ELSE LET winner == Head(ws)
             excess_votes == T_sub(vote_totals[winner], vote_threshold)
             excess_vote_ratio == T_div(excess_votes, vote_totals[winner])
             scaled == [b \in Ballots |->
                 IF d[b].cur_candidate = winner
                 THEN [d[b] EXCEPT !.vote_remaining = T_mul(@, excess_vote_ratio)]
                 ELSE d[b]]
         IN  scale_winners(scaled, vote_totals, vote_threshold, Tail(ws))

RECURSIVE pyrcv_scale_winners(_, _, _, _)
\* pyrcv's Tabulator.tabulate 141-148: the loop over round_winners that
\* scales the ballots on each winner, before any ballot is moved
pyrcv_scale_winners(d, totals, vote_threshold, round_winners) ==
    IF round_winners = <<>> THEN d
    ELSE LET winner == Head(round_winners)
             excess_vote_ratio ==
                 T_div(T_sub(totals[winner], vote_threshold), totals[winner])
             is_winner == {b \in Ballots : d[b].cur_candidate = winner}
             scaled == [b \in Ballots |->
                 IF b \in is_winner
                 THEN [d[b] EXCEPT !.vote_remaining = T_mul(@, excess_vote_ratio)]
                 ELSE d[b]]
         IN  pyrcv_scale_winners(scaled, totals, vote_threshold, Tail(round_winners))

RECURSIVE tabulate_winner_loop(_, _, _, _, _)
\* src/tabulate.py 84-91: for each winner, scale its ballots (divide is a
\* parameter of tabulate; here exact division), move them one rank on and
\* settle them past the sentinels and the decided candidates, the round's
\* winners among them
tabulate_winner_loop(d, totals, vote_threshold, round_winners, decided) ==
    IF round_winners = <<>> THEN d
    ELSE LET winner == Head(round_winners)
             extra_ratio == Div(Sub(totals[winner], vote_threshold), totals[winner])
             is_winner == {b \in Ballots : d[b].cur_candidate = winner}
             adjusted == [b \in Ballots |->
                 IF b \in is_winner
                 THEN [d[b] EXCEPT !.vote_remaining = Mul(@, extra_ratio)]
                 ELSE d[b]]
             moved == skip_cvrs_with_choices(
                          skip_to_next_rank(adjusted, is_winner),
                          <<"undervote", "overvote", "UWI">> \o decided)
         IN  tabulate_winner_loop(moved, totals, vote_threshold,
                                  Tail(round_winners), decided)

\* to_reallocate as it would be if no ballot were picked for the transfer
to_reallocate_none(d, from_candidates) == {}

to_reallocate(d, from_candidates) ==
    {b \in Ballots : d[b].cur_candidate \in SeqToSet(from_candidates)}

\* transfer_ballots as it would be if the record counted the ballots moved
\* instead of adding up their weights
transfer_ballots_counting(d, from_candidates, ignore_candidates) ==
    LET moved == to_reallocate(d, from_candidates)
        after == skip_to_next_eligible_rank(
                     skip_to_next_rank(d, moved), ignore_candidates)
        keys == {<<d[b].cur_candidate, after[b].cur_candidate>> : b \in moved}
        x == [k \in keys |->
                 FromInt(Cardinality({b \in moved : d[b].cur_candidate = k[1]
                                                     /\ after[b].cur_candidate = k[2]}))]
    IN  [ballot_set |-> after, transfers |-> x]

\* transfer_ballots: the ballot set as it leaves it, and the value returned
\* (votes summed by (from, to))
transfer_ballots(d, from_candidates, ignore_candidates) ==
    LET moved == to_reallocate(d, from_candidates)
        after == skip_to_next_eligible_rank(
                     skip_to_next_rank(d, moved), ignore_candidates)
        keys == {<<d[b].cur_candidate, after[b].cur_candidate>> : b \in moved}
        x == [k \in keys |->
                 sum_votes(after, {b \in moved : d[b].cur_candidate = k[1]
                                                /\ after[b].cur_candidate = k[2]})]
    IN  [ballot_set |-> after, transfers |-> x]

TabulationRound(n, q, totals, ws, ls, tr) ==
    [round_number |-> n, vote_threshold |-> q, vote_totals |-> totals,
     winners |-> ws, losers |-> ls, transfers |-> tr]

\* tabulate_round: the set of outcomes of one call. An outcome is the round
\* returned and the ballot set as the call leaves it, or, when select_losers
\* raises IndexError (index[0] of an empty tally), the ballot set as settled.
tabulate_round(r, d, q, ws, ls, n) ==
    LET settled == skip_to_next_eligible_rank(d, ws \o ls)
        vote_totals == tally_votes(settled)
        round_winners == select_winners(vote_totals, q)
        choices == select_losers(r, vote_totals, q)
    IN  IF round_winners # <<>>
        THEN LET scaled == scale_winners(settled, vote_totals, q, round_winners)
                 t == transfer_ballots(scaled, round_winners, ws \o ls)
             IN  {[raised |-> FALSE,
                   round |-> TabulationRound(n, q, vote_totals, round_winners, <<>>,
                                             t.transfers),
                   ballot_set |-> t.ballot_set]}
        ELSE IF choices = {}
        THEN {[raised |-> TRUE,
               round |-> TabulationRound(n, q, vote_totals, <<>>, <<>>, <<>>),
               ballot_set |-> settled]}
        ELSE {LET t == transfer_ballots(settled, round_losers,
                                        round_losers \o ws \o ls)
              IN  [raised |-> FALSE,
                   round |-> TabulationRound(n, q, vote_totals, <<>>, round_losers,
                                             t.transfers),
                   ballot_set |-> t.ballot_set]
              : round_losers \in choices}

(***************************************************************************)
(* The report (tabulate.py 208-245).                                       *)
(***************************************************************************)
uwi_str == "Undeclared Write-ins"

\* rename(index={"UWI": uwi_str}) on one label
rename(c) == IF c = "UWI" THEN uwi_str ELSE c

\* astype(str) on one Fraction: str() prints "n" for a whole number and
\* "n/d" otherwise; the text is kept as the numbers it prints
astype_str(x) == IF x[2] = 1 THEN [str |-> <<x[1]>>] ELSE [str |-> <<x[1], x[2]>>]

\* transfers[candidate] as it would be if the (from, to) series were not
\* narrowed to the candidate's rows
select_from_any(transfers, candidate) ==
    LET tos == {k[2] : k \in DOMAIN transfers}
    IN  [t \in tos |->
            transfers[CHOOSE k \in DOMAIN transfers : k[2] = t]]

\* transfers[candidate].to_dict(): the rows of the (from, to) series whose
\* first level is the candidate, keyed by the second level
select_from(transfers, candidate) ==
    LET tos == {k[2] : k \in {k \in DOMAIN transfers : k[1] = candidate}}
    IN  [t \in tos |-> transfers[<<candidate, t>>]]

\* brightspots_round_output. raised: transfers[candidate] finds no row
\* (KeyError).
brightspots_round_output(round_index, round) ==
    LET round_num == round_index + 1
        ws == [k \in 1..Len(round.winners) |-> rename(round.winners[k])]
        ls == [k \in 1..Len(round.losers) |-> rename(round.losers[k])]
        transfers == [k \in {<<rename(j[1]), rename(j[2])>> : j \in DOMAIN round.transfers} |->
                         astype_str(round.transfers[
                             CHOOSE j \in DOMAIN round.transfers :
                                 <<rename(j[1]), rename(j[2])>> = k])]
        tally == [c \in {rename(j) : j \in DOMAIN round.vote_totals} |->
                     astype_str(round.vote_totals[
                         CHOOSE j \in DOMAIN round.vote_totals : rename(j) = c])]
        tallyResults ==
            [k \in 1..Len(ws) |->
                [elected |-> ws[k], transfers |-> select_from(transfers, ws[k])]]
            \o
            [k \in 1..Len(ls) |->
                [eliminated |-> ls[k], transfers |-> select_from(transfers, ls[k])]]
    IN  [raised |-> \E c \in SeqToSet(ws) \cup SeqToSet(ls) :
                        \A k \in DOMAIN transfers : k[1] # c,
         result |-> [round |-> round_num, tally |-> tally, tallyResults |-> tallyResults]]

\* brightspots_output: the "results" list, one entry per round of the list
brightspots_output(t_rounds) ==
    LET outs == [i \in 1..Len(t_rounds) |-> brightspots_round_output(i - 1, t_rounds[i])]
    IN  [raised |-> \E i \in 1..Len(t_rounds) : outs[i].raised,
         results |-> [i \in 1..Len(t_rounds) |-> outs[i].result]]

(***************************************************************************)
(* Inputs: the ballot table and the rules. No operation reads the order    *)
(* of the rows, so tables are listed with their rows in ascending order.   *)
(***************************************************************************)
NumRowTypes == Pow(Len(CellOrder), Len(ranks))

\* the row with code c: one cell per rank column
Row(c) ==
    [j \in 1..Len(ranks) |->
        CellOrder[((c \div Pow(Len(CellOrder), Len(ranks) - j)) % Len(CellOrder)) + 1]]

RECURSIVE AscendingCodes(_, _)
AscendingCodes(n, lo) ==
    IF n = 0 THEN {<<>>}
    ELSE UNION {{<<c>> \o s : s \in AscendingCodes(n - 1, c)} : c \in lo..(NumRowTypes - 1)}

Tables == {[b \in 1..NumBallots |-> Row(cs[b])] : cs \in AscendingCodes(NumBallots, 0)}

\* every rule set over the fields the tabulation reads, and the flag
\* non_integer_winning_threshold, which no line of the tabulation reads
AllRuleSets ==
    [number_of_winners : 0..MaxWinners,
     hare_quota : BOOLEAN,
     batch_elimination : BOOLEAN,
     non_integer_winning_threshold : BOOLEAN,
     decimal_places_for_vote_arithmetic : {-1, 4}]

\* the rule sets of exact-rational arithmetic
ExactRuleSets == {r \in AllRuleSets : r.decimal_places_for_vote_arithmetic = -1}

RuleSets == {r \in ExactRuleSets : ~r.non_integer_winning_threshold}

\* the rule sets of decimal arithmetic
DecimalRuleSets ==
    {r \in AllRuleSets : r.decimal_places_for_vote_arithmetic >= 1
                          /\ ~r.non_integer_winning_threshold}

TypeOK ==
    /\ pc \in {"start", "loop", "done", "failed", "threshold", "pyrcv_threshold",
              "reported", "skipped", "settled", "pyrcv_settled", "transferred"}
    /\ rules \in AllRuleSets
    /\ \A b \in Ballots : df[b].cur_rank_i \in 0..K

Init ==
    /\ ballot_records \in Tables
    /\ rules \in RuleSets
    /\ df = BallotSet(One)
    /\ threshold = Zero
    /\ winners = <<>>
    /\ losers = <<>>
    /\ rounds = <<>>
    /\ pc = "start"
    /\ output = <<>>

\* tabulate 136-145: build the ballot set, settle it, fix the threshold
Begin ==
    /\ pc = "start"
    /\ threshold_divisor(rules, winners) # 0
    /\ LET d == skip_to_next_eligible_rank(BallotSet(One), winners \o losers)
       IN  /\ df' = d
           /\ threshold' = FromInt(Ceil(rules_threshold(rules, d, winners)))
    /\ pc' = "loop"
    /\ UNCHANGED <<ballot_records, rules, winners, losers, rounds, output>>

\* tabulate 145: the quota's division raises ZeroDivisionError
BeginFail ==
    /\ pc = "start"
    /\ threshold_divisor(rules, winners) = 0
    /\ df' = skip_to_next_eligible_rank(BallotSet(One), winners \o losers)
    /\ pc' = "failed"
    /\ UNCHANGED <<ballot_records, rules, threshold, winners, losers, rounds, output>>

LoopGuard ==
    /\ pc = "loop"
    /\ Len(winners) < rules.number_of_winners
    /\ Len(rounds) < MaxRounds

\* one pass of the loop, tabulate 147-151; an exception raised by
\* tabulate_round ends the run before the round is merged
Round ==
    /\ LoopGuard
    /\ \E out \in tabulate_round(rules, df, threshold, winners, losers, 1 + Len(rounds)) :
        /\ df' = out.ballot_set
        /\ IF out.raised
           THEN /\ pc' = "failed"
                /\ UNCHANGED <<winners, losers, rounds>>
           ELSE /\ winners' = winners \o out.round.winners
                /\ losers' = losers \o out.round.losers
                /\ rounds' = Append(rounds, out.round)
                /\ pc' = pc
    /\ UNCHANGED <<ballot_records, rules, threshold, output>>

\* tabulate 147, 153: the loop condition fails and the tabulation is returned
Return ==
    /\ pc = "loop"
    /\ Len(winners) >= rules.number_of_winners
    /\ pc' = "done"
    /\ UNCHANGED <<ballot_records, rules, df, threshold, winners, losers, rounds, output>>

Next ==
    \/ Begin
    \/ BeginFail
    \/ Round
    \/ Return

Spec == Init /\ [][Next]_vars

(***************************************************************************)
(* The quota computations on their own: every rule set, with the three     *)
(* places that compute a threshold applied to the settled ballot set.      *)
(***************************************************************************)
InitQuota ==
    /\ ballot_records \in Tables
    /\ rules \in ExactRuleSets
    /\ df = BallotSet(One)
    /\ threshold = Zero
    /\ winners = <<>>
    /\ losers = <<>>
    /\ rounds = <<>>
    /\ pc = "start"
    /\ output = <<>>

\* a call of easyrcv's TabulatorRules.threshold (config.py 199-206) on the
\* settled ballot set, before tabulate rounds the result
ThresholdCall ==
    /\ pc = "start"
    /\ threshold_divisor(rules, winners) # 0
    /\ LET d == skip_to_next_eligible_rank(BallotSet(One), winners \o losers)
       IN  /\ df' = d
           /\ threshold' = rules_threshold(rules, d, winners)
    /\ pc' = "threshold"
    /\ UNCHANGED <<ballot_records, rules, winners, losers, rounds, output>>

\* pyrcv's Tabulator.tabulate up to the first round's threshold
\* (pyrcv/tabulate.py 113-134), which calls src/config.py's threshold
PyrcvThresholdCall ==
    /\ pc = "start"
    /\ LET d == skip_to_next_eligible_rank(BallotSet(One),
                    <<"UWI">> \o winners \o losers)
       IN  /\ df' = d
           /\ threshold' = config_threshold(rules,
                               sum_votes(d, Ballots \ is_exhausted(d)),
                               rules.number_of_winners - Len(winners))
    /\ pc' = "pyrcv_threshold"
    /\ UNCHANGED <<ballot_records, rules, winners, losers, rounds, output>>

NextQuota ==
    \/ Begin
    \/ BeginFail
    \/ ThresholdCall
    \/ PyrcvThresholdCall

SpecQuota == InitQuota /\ [][NextQuota]_vars

(***************************************************************************)
(* The reference scenario: three rank columns, 10 x A>B>C, 8 x B>A>C,      *)
(* 3 x C>A>B, and the tables with one ballot fewer in any of the groups,   *)
(* under every rule set.                                                   *)
(***************************************************************************)
ReferenceRows == <<<<"A", "B", "C">>, <<"B", "A", "C">>, <<"C", "A", "B">>>>
ReferenceCounts == <<10, 8, 3>>

\* the table with n[i] copies of ReferenceRows[i], group after group
ScenarioTable(n) ==
    [b \in 1..(n[1] + n[2] + n[3]) |->
        IF b <= n[1] THEN ReferenceRows[1]
        ELSE IF b <= n[1] + n[2] THEN ReferenceRows[2]
        ELSE ReferenceRows[3]]

ReferenceTable == ScenarioTable(ReferenceCounts)

ScenarioTables ==
    {ScenarioTable(<<ReferenceCounts[1] - i, ReferenceCounts[2] - j, ReferenceCounts[3] - k>>) :
        i \in 0..1, j \in 0..1, k \in 0..1}

\* 1 seat, Droop quota, single elimination
ReferenceRules ==
    [number_of_winners |-> 1, hare_quota |-> FALSE, batch_elimination |-> FALSE,
     non_integer_winning_threshold |-> FALSE, decimal_places_for_vote_arithmetic |-> -1]

InitReference ==
    /\ ballot_records \in ScenarioTables
    /\ rules \in RuleSets
    /\ df = BallotSet(One)
    /\ threshold = Zero
    /\ winners = <<>>
    /\ losers = <<>>
    /\ rounds = <<>>
    /\ pc = "start"
    /\ output = <<>>

SpecReference == InitReference /\ [][Next]_vars

(***************************************************************************)
(* The report of a returned tabulation, on tables in which the third       *)
(* candidate is the undeclared write-in label "UWI".                       *)
(***************************************************************************)
ReportCellOrder == <<"A", "B", "UWI", "undervote">>

ReportRow(c) ==
    [j \in 1..Len(ranks) |->
        ReportCellOrder[((c \div Pow(Len(ReportCellOrder), Len(ranks) - j))
                            % Len(ReportCellOrder)) + 1]]

ReportTables ==
    {[b \in 1..NumBallots |-> ReportRow(cs[b])] : cs \in AscendingCodes(NumBallots, 0)}

InitReport ==
    /\ ballot_records \in ReportTables
    /\ rules \in RuleSets
    /\ df = BallotSet(One)
    /\ threshold = Zero
    /\ winners = <<>>
    /\ losers = <<>>
    /\ rounds = <<>>
    /\ pc = "start"
    /\ output = <<>>

\* brightspots_output(tabulation) on the tabulation tabulate returned
Output ==
    /\ pc = "done"
    /\ LET out == brightspots_output(rounds)
       IN  IF out.raised
           THEN pc' = "failed" /\ output' = output
           ELSE pc' = "reported" /\ output' = out.results
    /\ UNCHANGED <<ballot_records, rules, df, threshold, winners, losers, rounds>>

NextReport ==
    \/ Begin
    \/ BeginFail
    \/ Round
    \/ Return
    \/ Output

SpecReport == InitReport /\ [][NextReport]_vars

(***************************************************************************)
(* Decimal arithmetic. The sums of a tally add the rows in table order, so *)
(* the tables are listed in every row order; each ballot ranks the whole   *)
(* roster, one candidate per rank column.                                  *)
(***************************************************************************)
Rankings ==
    {r \in [1..Len(CandidateOrder) -> Candidates] :
        \A i, j \in 1..Len(CandidateOrder) : i # j => r[i] # r[j]}

DecimalTables == [1..NumBallots -> Rankings]

InitDecimal ==
    /\ ballot_records \in DecimalTables
    /\ rules \in DecimalRuleSets
    /\ df = BallotSet(One)
    /\ threshold = Zero
    /\ winners = <<>>
    /\ losers = <<>>
    /\ rounds = <<>>
    /\ pc = "start"
    /\ output = <<>>

SpecDecimal == InitDecimal /\ [][Next]_vars

(***************************************************************************)
(* Both arithmetics side by side on the same tables.                       *)
(***************************************************************************)
InitArithmetic ==
    /\ ballot_records \in DecimalTables
    /\ rules \in RuleSets \cup DecimalRuleSets
    /\ df = BallotSet(One)
    /\ threshold = Zero
    /\ winners = <<>>
    /\ losers = <<>>
    /\ rounds = <<>>
    /\ pc = "start"
    /\ output = <<>>

SpecArithmetic == InitArithmetic /\ [][Next]_vars

(***************************************************************************)
(* The script src/tabulate.py: tabulate with exact division, two seats.    *)
(***************************************************************************)
num_winners == 2

RECURSIVE tabulate_loser_loop(_, _, _)
\* src/tabulate.py 95-100: for each loser, move its ballots one rank on and
\* settle every ballot past the sentinels and the decided candidates
tabulate_loser_loop(d, round_losers, decided) ==
    IF round_losers = <<>> THEN d
    ELSE LET is_loser == {b \in Ballots : d[b].cur_candidate = Head(round_losers)}
             moved == skip_cvrs_with_choices(
                          skip_to_next_rank(d, is_loser),
                          <<"undervote", "overvote", "UWI">> \o decided)
         IN  tabulate_loser_loop(moved, Tail(round_losers), decided)

InitScript ==
    /\ ballot_records \in Tables
    /\ rules = ReferenceRules
    /\ df = BallotSet(One)
    /\ threshold = Zero
    /\ winners = <<>>
    /\ losers = <<>>
    /\ rounds = <<>>
    /\ pc = "start"
    /\ output = <<>>

\* one pass of the while loop of tabulate (src/tabulate.py 72-102). A pass
\* that finds neither winners nor losers changes nothing but the round
\* counter, and the loop goes on.
ScriptRound ==
    /\ pc = "start"
    /\ Len(winners) < num_winners
    /\ Len(rounds) < MaxRounds
    /\ LET settled == skip_cvrs_with_choices(
                          df, <<"undervote", "overvote", "UWI">> \o winners \o losers)
           q == Div(FromInt(Cardinality(Ballots \ is_exhausted(settled))),
                    FromInt(num_winners - Len(winners) + 1))
           totals == tally_votes(settled)
           round_winners == SelectSeq(Index(totals), LAMBDA c : Less(q, totals[c]))
           idx == Index(totals)
           cs == Cumsum(SortedValues(totals, DOMAIN totals), Len(idx))
           round_losers == TakeMasked(idx, [k \in 1..Len(idx) |-> Less(cs[k], q)],
                                      Len(idx))
       IN  /\ threshold' = q
           /\ IF round_winners # <<>>
              THEN /\ winners' = winners \o round_winners
                   /\ losers' = losers
                   /\ df' = tabulate_winner_loop(settled, totals, q, round_winners,
                                                  winners \o round_winners \o losers)
                   /\ rounds' = Append(rounds, TabulationRound(1 + Len(rounds), q, totals,
                                                               round_winners, <<>>, <<>>))
              ELSE /\ winners' = winners
                   /\ losers' = losers \o round_losers
                   /\ df' = tabulate_loser_loop(settled, round_losers,
                                                 winners \o losers \o round_losers)
                   /\ rounds' = Append(rounds, TabulationRound(1 + Len(rounds), q, totals,
                                                               <<>>, round_losers, <<>>))
    /\ UNCHANGED <<ballot_records, rules, pc, output>>

\* the loop condition fails and tabulate returns
ScriptReturn ==
    /\ pc = "start"
    /\ Len(winners) >= num_winners
    /\ pc' = "done"
    /\ UNCHANGED <<ballot_records, rules, df, threshold, winners, losers, rounds, output>>

NextScript ==
    \/ ScriptRound
    \/ ScriptReturn

SpecScript == InitScript /\ [][NextScript]_vars

(***************************************************************************)
(* The ballot set on its own: the operations that move the rank pointers,  *)
(* called in any order with any list of candidates.                        *)
(***************************************************************************)
\* the lists of candidates a caller can pass, in index order
CandidateLists ==
    {SelectSeq(CandidateOrder, LAMBDA c : c \in S) : S \in SUBSET Candidates}

\* the ballot tables of the ballot set on its own: each ballot moves
\* independently of the others, so two ballots fewer are enumerated
BallotSetTables ==
    {[b \in 1..(NumBallots - 2) |-> Row(cs[b])] : cs \in AscendingCodes(NumBallots - 2, 0)}

InitBallotSet ==
    /\ ballot_records \in BallotSetTables
    /\ rules = ReferenceRules
    /\ df = BallotSet(One)
    /\ threshold = Zero
    /\ winners = <<>>
    /\ losers = <<>>
    /\ rounds = <<>>
    /\ pc = "start"
    /\ output = <<>>

\* one pass of the while loop of skip_to_next_eligible_rank (config.py 224-227)
SkipIneligible(ignore_candidates) ==
    /\ find_ineligible(df, ignore_candidates) # {}
    /\ df' = skip_to_next_rank(df, find_ineligible(df, ignore_candidates))
    /\ pc' = "skipped"
    /\ UNCHANGED <<ballot_records, rules, threshold, winners, losers, rounds, output>>

\* a call of TabulatorRules.skip_to_next_eligible_rank
Settle(ignore_candidates) ==
    /\ df' = skip_to_next_eligible_rank(df, ignore_candidates)
    /\ pc' = "settled"
    /\ UNCHANGED <<ballot_records, rules, threshold, winners, losers, rounds, output>>

\* a call of pyrcv's CvrStatus.skip_cvrs_with_choices as Tabulator.tabulate
\* makes it (pyrcv/tabulate.py 118-120)
PyrcvSettle(decided) ==
    /\ df' = skip_cvrs_with_choices(df, <<"undervote", "overvote", "UWI">> \o decided)
    /\ pc' = "pyrcv_settled"
    /\ UNCHANGED <<ballot_records, rules, threshold, winners, losers, rounds, output>>

\* a call of Tabulator.transfer_ballots
Transfer(from_candidates, ignore_candidates) ==
    /\ from_candidates # <<>>
    /\ df' = transfer_ballots(df, from_candidates, ignore_candidates).ballot_set
    /\ pc' = "transferred"
    /\ UNCHANGED <<ballot_records, rules, threshold, winners, losers, rounds, output>>

NextBallotSet ==
    \/ \E ignore_candidates \in CandidateLists : SkipIneligible(ignore_candidates)
    \/ \E ignore_candidates \in CandidateLists : Settle(ignore_candidates)
    \/ \E decided \in CandidateLists : PyrcvSettle(decided)
    \/ \E from_candidates \in CandidateLists : \E ignore_candidates \in CandidateLists :
           Transfer(from_candidates, ignore_candidates)

SpecBallotSet == InitBallotSet /\ [][NextBallotSet]_vars

(***************************************************************************)
(* Properties.                                                             *)
(***************************************************************************)
RoundSet == {rounds[i] : i \in 1..Len(rounds)}

\* C1: after every round has been merged into the cumulative lists, no
\* candidate is both a cumulative winner and a cumulative loser.
C1_WinnersLosersDisjoint ==
    SeqToSet(winners) \cap SeqToSet(losers) = {}

\* a run that has both elected and eliminated candidates
C1_Witness ==
    /\ Len(rounds) >= 2
    /\ winners # <<>>
    /\ losers # <<>>

\* C2: in every round the winners are exactly the candidates of the round's
\* tally whose total is strictly greater than the round's threshold; a total
\* equal to the threshold does not elect.
C2_WinnersStrictlyAboveThreshold ==
    \A r \in RoundSet :
        /\ SeqToSet(r.winners) =
               {c \in DOMAIN r.vote_totals : Less(r.vote_threshold, r.vote_totals[c])}
        /\ \A c \in DOMAIN r.vote_totals :
               r.vote_totals[c] = r.vote_threshold => c \notin SeqToSet(r.winners)

\* a run with a round electing several candidates at once and a round in
\* which a candidate sits exactly on the threshold and is not elected
C2_Witness ==
    /\ \E r \in RoundSet : Len(r.winners) >= 2
    /\ \E r \in RoundSet : \E c \in DOMAIN r.vote_totals :
           /\ r.vote_totals[c] = r.vote_threshold
           /\ c \notin SeqToSet(r.winners)

\* the weight the round's transfer record moves away from candidate c
Transferred(r, c) ==
    SumOver(r.transfers, {k \in DOMAIN r.transfers : k[1] = c})

RECURSIVE Retained(_, _)
\* the weight the candidates in ws, elected in round r, keep for themselves
Retained(r, ws) ==
    IF ws = <<>> THEN Zero
    ELSE Add(Sub(r.vote_totals[Head(ws)], Transferred(r, Head(ws))),
             Retained(r, Tail(ws)))

C4_AtMostCRounds ==
    Len(rounds) <= Cardinality(Candidates)

\* C5: the cumulative winners never exceed number_of_winners, and when
\* tabulate returns they are exactly number_of_winners.
C5_SeatsExactlyFilled ==
    /\ Len(winners) <= rules.number_of_winners
    /\ pc = "done" => Len(winners) = rules.number_of_winners

\* a returned run in which one round elected several candidates at once
C5_Witness ==
    /\ pc = "done"
    /\ \E r \in RoundSet : Len(r.winners) >= 2

RECURSIVE SumLen(_)
\* the number of candidates elected in rounds i, i+1, ...
SumLen(i) ==
    IF i > Len(rounds) THEN 0 ELSE Len(rounds[i].winners) + SumLen(i + 1)

\* the number of candidates elected before round i
WinnersBefore(i) == Len(winners) - SumLen(i)

\* C6: every round's vote_threshold is the quota computed from that round's
\* continuing vote total and the seats remaining at that round.
C6_ThresholdPerRound ==
    \A i \in 1..Len(rounds) :
        LET r == rounds[i]
            seats == rules.number_of_winners - WinnersBefore(i)
            divisor == IF rules.hare_quota THEN seats ELSE seats + 1
        IN  r.vote_threshold =
                FromInt(Ceil(Div(TallySum(r.vote_totals), FromInt(divisor))))

\* the continuing vote total of the settled ballot set
ContinuingVoteTotal == sum_votes(df, Ballots \ is_exhausted(df))

\* C7: under the Droop rule the threshold is total / (seats + 1), rounded up
\* unless non_integer_winning_threshold is set, and unrounded when it is set.
C7_DroopThreshold ==
    (pc = "loop" /\ ~rules.hare_quota) =>
        LET quotient == Div(ContinuingVoteTotal,
                            FromInt(rules.number_of_winners - Len(winners) + 1))
        IN  threshold = IF rules.non_integer_winning_threshold
                        THEN quotient
                        ELSE FromInt(Ceil(quotient))

\* C8: with hare_quota set the threshold is total / seats, and for a positive
\* total it differs from the Droop threshold total / (seats + 1).
C8_HareDividesBySeats ==
    (/\ pc \in {"threshold", "pyrcv_threshold"}
     /\ rules.hare_quota
     /\ rules.number_of_winners - Len(winners) >= 1) =>
        LET seats == rules.number_of_winners - Len(winners)
        IN  /\ threshold = Div(ContinuingVoteTotal, FromInt(seats))
            /\ Less(Zero, ContinuingVoteTotal) =>
                   threshold # Div(ContinuingVoteTotal, FromInt(seats + 1))

\* C8 for easyrcv's TabulatorRules.threshold alone
C8_EasyrcvOnly ==
    pc = "threshold" => C8_HareDividesBySeats

\* C9: in a batch-elimination round without a winner the eliminated set is
\* the maximal run of lowest totals whose running sum stays below the
\* threshold: as many candidates as running sums below the threshold, and
\* none with a higher total than a candidate that is not eliminated.
C9_BatchEliminatesLowest ==
    \A r \in RoundSet :
        (r.winners = <<>> /\ rules.batch_elimination) =>
            LET t == r.vote_totals
                n == Cardinality(DOMAIN t)
                cs == Cumsum(SortedValues(t, DOMAIN t), n)
            IN  /\ Len(r.losers) =
                       Cardinality({k \in 1..n : Less(cs[k], r.vote_threshold)})
                /\ \A l \in SeqToSet(r.losers) :
                       \A c \in DOMAIN t \ SeqToSet(r.losers) :
                           Leq(t[l], t[c])

\* C10: with batch_elimination disabled a round without a winner eliminates
\* exactly one candidate, and no candidate of the round's tally has a lower
\* total than the eliminated one.
C10_SingleLowestEliminated ==
    \A r \in RoundSet :
        (r.winners = <<>> /\ ~rules.batch_elimination) =>
            /\ Len(r.losers) = 1
            /\ r.losers[1] \in DOMAIN r.vote_totals
            /\ \A c \in DOMAIN r.vote_totals :
                   Leq(r.vote_totals[r.losers[1]], r.vote_totals[c])

\* a single elimination among several candidates tied for the lowest total
C10_Witness ==
    /\ ~rules.batch_elimination
    /\ \E r \in RoundSet :
        /\ r.winners = <<>>
        /\ Len(r.losers) = 1
        /\ \E c \in DOMAIN r.vote_totals :
               /\ c # r.losers[1]
               /\ r.vote_totals[c] = r.vote_totals[r.losers[1]]

\* C11: on the reference scenario round 1 has totals A=10, B=8, C=3, elects
\* nobody and eliminates C, whose 3 ballots transfer to A; round 2 has totals
\* A=13, B=8 and elects A; no third round begins, the run does not fail, and
\* it returns after round 2 with winners = [A].
C11_ReferenceScenario ==
    (ballot_records = ReferenceTable /\ rules = ReferenceRules) =>
        /\ pc # "failed"
        /\ Len(rounds) <= 2
        /\ Len(rounds) >= 1 =>
               /\ rounds[1].vote_totals =
                      ("A" :> FromInt(10)) @@ ("B" :> FromInt(8)) @@ ("C" :> FromInt(3))
               /\ rounds[1].winners = <<>>
               /\ rounds[1].losers = <<"C">>
               /\ rounds[1].transfers = (<<"C", "A">> :> FromInt(3))
        /\ Len(rounds) >= 2 =>
               /\ rounds[2].vote_totals = ("A" :> FromInt(13)) @@ ("B" :> FromInt(8))
               /\ rounds[2].winners = <<"A">>
               /\ rounds[2].losers = <<>>
               /\ winners = <<"A">>
        /\ pc = "done" => (Len(rounds) = 2 /\ winners = <<"A">> /\ losers = <<"C">>)

\* the reference scenario has returned after its second round
C11_Witness ==
    /\ ballot_records = ReferenceTable
    /\ rules = ReferenceRules
    /\ pc = "done"
    /\ Len(rounds) = 2

\* ballot b of the ballot set d has no eligible choice at or after its
\* current rank: every one is a sentinel or a decided candidate
NoEligibleChoiceLeft(d, b, decided) ==
    \A j \in (d[b].cur_rank_i + 1)..K :
        ballot_records[b][j] \in {"undervote", "overvote"} \cup decided

\* C12: a ballot that has no eligible choice left when the ballots are
\* settled is exhausted from then on; the threshold is computed from the
\* weight of the other ballots only, every round's vote totals add up to the
\* weight of the other ballots only, and "exhausted" is no key of a tally.
C12_ExhaustedNeverCounted ==
    [][/\ \A b \in Ballots :
              df[b].cur_candidate = "exhausted" => df'[b].cur_candidate = "exhausted"
       /\ (pc = "start" /\ pc' = "loop") =>
              LET gone == {b \in Ballots : NoEligibleChoiceLeft(df, b, {})}
              IN  /\ gone = is_exhausted(df')
                  /\ threshold' =
                         FromInt(Ceil(Div(sum_votes(df', Ballots \ gone),
                                          FromInt(threshold_divisor(rules, winners)))))
       /\ Len(rounds') = Len(rounds) + 1 =>
              LET r == rounds'[Len(rounds')]
                  gone == {b \in Ballots :
                              NoEligibleChoiceLeft(df, b, SeqToSet(winners \o losers))}
              IN  /\ gone \subseteq is_exhausted(df')
                  /\ "exhausted" \notin DOMAIN r.vote_totals
                  /\ TallySum(r.vote_totals) = sum_votes(df, Ballots \ gone)]_vars

\* a ballot exhausted by the first round's elimination still carries weight
\* when the second round is tallied
C12_Witness ==
    /\ Len(rounds) >= 2
    /\ \E b \in Ballots :
           /\ df[b].cur_candidate = "exhausted"
           /\ Less(Zero, df[b].vote_remaining)
           /\ ballot_records[b][1] \in SeqToSet(rounds[1].losers)
           /\ ballot_records[b][2] \in {"undervote"} \cup SeqToSet(rounds[1].losers)

\* the candidates elected or eliminated in the rounds before round i
DecidedBefore(i) ==
    UNION {SeqToSet(rounds[j].winners) \cup SeqToSet(rounds[j].losers) : j \in 1..(i - 1)}

\* C13: no round's vote totals have an overvote or undervote sentinel as a
\* key, nor a candidate elected or eliminated in an earlier round; and when a
\* round begins, settling leaves no ballot on a sentinel or on a cumulative
\* winner or loser.
C13_DecidedNeverTallied ==
    /\ \A i \in 1..Len(rounds) :
           DOMAIN rounds[i].vote_totals \cap
               ({"undervote", "overvote"} \cup DecidedBefore(i)) = {}
    /\ LoopGuard =>
           LET settled == skip_to_next_eligible_rank(df, winners \o losers)
           IN  \A b \in Ballots :
                   settled[b].cur_candidate \notin
                       {"undervote", "overvote"} \cup SeqToSet(winners \o losers)

\* a ballot whose second choice was decided in an earlier round than its
\* first choice, with a round tallied after both
C13_Witness ==
    \E i \in 1..Len(rounds) : \E j \in (i + 1)..(Len(rounds) - 1) : \E b \in Ballots :
        /\ ballot_records[b][1] # ballot_records[b][2]
        /\ ballot_records[b][2] \in SeqToSet(rounds[i].winners) \cup SeqToSet(rounds[i].losers)
        /\ ballot_records[b][1] \in SeqToSet(rounds[j].winners) \cup SeqToSet(rounds[j].losers)

C15_ContendingAlwaysTallied ==
    \A i \in 1..Len(rounds) :
        (Candidates \ DecidedBefore(i)) \subseteq DOMAIN rounds[i].vote_totals

\* C16: for a rule set with number_of_winners = 0 tabulate never returns a
\* Tabulation.
C16_ZeroWinnersRejected ==
    rules.number_of_winners = 0 => pc # "done"

\* the label a candidate is reported under
Reported(c) == IF c = "UWI" THEN "Undeclared Write-ins" ELSE c

\* C17: the report has one entry per round, in round order and numbered
\* 1..n; entry i's tally has one string per key of round i's vote totals;
\* its tallyResults list one "elected" entry per winner of the round, in
\* order, then one "eliminated" entry per loser, in order; and each entry's
\* transfers map holds, per destination (candidates and "exhausted"), the
\* weight round i's transfer record moves from that candidate to it.
C17_ReportMatchesRounds ==
    /\ (pc = "done" /\ rounds # <<>>) => ~brightspots_output(rounds).raised
    /\ pc = "reported" =>
        /\ Len(output) = Len(rounds)
        /\ \A i \in 1..Len(rounds) :
            LET r == rounds[i]
                e == output[i]
                nw == Len(r.winners)
                nl == Len(r.losers)
                Entry(c, m) ==
                    /\ DOMAIN m = {Reported(k[2]) : k \in {k \in DOMAIN r.transfers : k[1] = c}}
                    /\ \A k \in DOMAIN r.transfers :
                           k[1] = c => m[Reported(k[2])] = astype_str(r.transfers[k])
            IN  /\ e.round = i
                /\ r.round_number = i
                /\ DOMAIN e.tally = {Reported(c) : c \in DOMAIN r.vote_totals}
                /\ \A c \in DOMAIN r.vote_totals :
                       e.tally[Reported(c)] = astype_str(r.vote_totals[c])
                /\ Len(e.tallyResults) = nw + nl
                /\ \A k \in 1..nw :
                       /\ DOMAIN e.tallyResults[k] = {"elected", "transfers"}
                       /\ e.tallyResults[k].elected = Reported(r.winners[k])
                       /\ Entry(r.winners[k], e.tallyResults[k].transfers)
                /\ \A k \in 1..nl :
                       /\ DOMAIN e.tallyResults[nw + k] = {"eliminated", "transfers"}
                       /\ e.tallyResults[nw + k].eliminated = Reported(r.losers[k])
                       /\ Entry(r.losers[k], e.tallyResults[nw + k].transfers)

\* a report of a run that both elected and eliminated candidates, the
\* write-in label among them, with a transfer to "exhausted"
C17_Witness ==
    /\ pc = "reported"
    /\ winners # <<>>
    /\ losers # <<>>
    /\ "UWI" \in SeqToSet(winners) \cup SeqToSet(losers)
    /\ \E i \in 1..Len(output) : \E k \in 1..Len(output[i].tallyResults) :
           "exhausted" \in DOMAIN output[i].tallyResults[k].transfers

\* the weight the round's transfer record moves from candidate c to other
\* candidates, exactly added
Redistributed(r, c) ==
    SumOver(r.transfers,
            {k \in DOMAIN r.transfers : k[1] = c /\ k[2] \in Candidates \ {c}})

\* C18: for every candidate elected in a round, the weight handed on from
\* that candidate's ballots to other candidates is at most the candidate's
\* surplus, the round's total minus the threshold; and the vote totals of a
\* round add up to no more than the vote totals of the round before.
C18_RoundDownNeverOverpays ==
    \A i \in 1..Len(rounds) :
        LET r == rounds[i]
        IN  /\ \A c \in SeqToSet(r.winners) :
                   Leq(Redistributed(r, c), Sub(r.vote_totals[c], r.vote_threshold))
            /\ i > 1 =>
                   Leq(SumOver(r.vote_totals, DOMAIN r.vote_totals),
                       SumOver(rounds[i - 1].vote_totals, DOMAIN rounds[i - 1].vote_totals))

\* the ballot set d with its rows in the order p[1], p[2], ...
Reordered(d, p) == [b \in Ballots |-> d[p[b]]]

\* the tally of the ballots S of d alone
PartialTally(d, S) ==
    LET live == S \ is_exhausted(d)
    IN  [c \in {d[b].cur_candidate : b \in live} |->
            sum_votes(d, {b \in live : d[b].cur_candidate = c})]

\* two partial tallies merged: totals of the same candidate added
Merged(t1, t2) ==
    [c \in DOMAIN t1 \cup DOMAIN t2 |->
        IF c \notin DOMAIN t2 THEN t1[c]
        ELSE IF c \notin DOMAIN t1 THEN t2[c]
        ELSE T_add(t1[c], t2[c])]

\* C19: tally_votes gives the same totals for every order of the ballot
\* rows, and for every split of the ballots into two parts tallied apart and
\* merged, in either arithmetic.
C19_TallyCommutes ==
    /\ \A p \in Permutations(Ballots) :
           tally_votes(Reordered(df, p)) = tally_votes(df)
    /\ \A S \in SUBSET Ballots :
           Merged(PartialTally(df, S), PartialTally(df, Ballots \ S)) = tally_votes(df)

\* the rules of the state with Droop quota and number_of_winners seats
DroopRules(seats) ==
    [rules EXCEPT !.hare_quota = FALSE, !.number_of_winners = seats]

\* the Droop threshold of easyrcv's rules for the ballot set of the state
\* when k seats remain open after j candidates have won
DroopThreshold(k, j) ==
    rules_threshold(DroopRules(k + j), df, SubSeq(CandidateOrder, 1, j))

\* C20: for the ballot set of the state, the Droop threshold for k remaining
\* open seats is at most the one for k - 1 remaining open seats, for every
\* k >= 2, as a fraction and rounded up, in easyrcv's rules (however many
\* candidates have won) and in src/config.py's; the threshold a call
\* computed is at most the one for a seat fewer.
C20_DroopThresholdMonotone ==
    LET seats == 1..(MaxWinners + 1)
        eligible_votes == sum_votes(df, Ballots \ is_exhausted(df))
        fresh == [k \in seats |-> DroopThreshold(k, 0)]
        later == [k \in seats |-> DroopThreshold(k, 1)]
        q == [k \in seats |-> config_threshold(DroopRules(k), eligible_votes, k)]
    IN  /\ \A k \in seats \ {1} : \A t \in {fresh, later, q} :
               /\ Leq(t[k], t[k - 1])
               /\ Ceil(t[k]) <= Ceil(t[k - 1])
        /\ (pc = "threshold" /\ ~rules.hare_quota /\ rules.number_of_winners >= 2) =>
               Leq(threshold, fresh[rules.number_of_winners - 1])

\* a Droop threshold computed for two or more seats that is strictly below
\* the one for a seat fewer, also once both are rounded up
C20_Witness ==
    /\ pc = "threshold"
    /\ ~rules.hare_quota
    /\ rules.number_of_winners >= 2
    /\ threshold = DroopThreshold(rules.number_of_winners, 0)
    /\ Less(Zero, threshold)
    /\ Ceil(threshold) < Ceil(DroopThreshold(rules.number_of_winners - 1, 0))

\* C21: after a round that elects winners, no ballot's current candidate and
\* no destination of that round's transfer record is a candidate elected or
\* eliminated so far, the candidates elected in that round included.
C21_TransferredToEligible ==
    (rounds # <<>> /\ rounds[Len(rounds)].winners # <<>>) =>
        LET r == rounds[Len(rounds)]
            decided == SeqToSet(winners \o losers)
        IN  /\ \A b \in Ballots : df[b].cur_candidate \notin decided
            /\ \A k \in DOMAIN r.transfers : k[2] \notin decided

\* C22: a round changes the weight of a ballot only if the ballot rests on
\* one of the round's winners when the votes are tallied, and then to a
\* weight between zero and the weight it had; a round that eliminates
\* candidates changes no weight, and neither does the settling before the
\* first round. Every weight is at least zero and never grows.
C22_WeightOnlyScaledDown ==
    [][/\ \A b \in Ballots :
              /\ Leq(Zero, df'[b].vote_remaining)
              /\ Leq(df'[b].vote_remaining, df[b].vote_remaining)
       /\ Len(rounds') = Len(rounds) =>
              \A b \in Ballots : df'[b].vote_remaining = df[b].vote_remaining
       /\ Len(rounds') = Len(rounds) + 1 =>
              LET r == rounds'[Len(rounds')]
                  settled == skip_to_next_eligible_rank(df, winners \o losers)
              IN  \A b \in Ballots :
                      settled[b].cur_candidate \notin SeqToSet(r.winners) =>
                          df'[b].vote_remaining = df[b].vote_remaining]_vars

\* a run with a round that elected and a round that eliminated, after which
\* one ballot carries part of its weight and another all of it
C22_Witness ==
    /\ \E i \in 1..Len(rounds) : rounds[i].winners # <<>>
    /\ \E i \in 1..Len(rounds) :
           rounds[i].losers # <<>> /\ DOMAIN rounds[i].transfers # {}
    /\ \E b \in Ballots :
           Less(Zero, df[b].vote_remaining) /\ Less(df[b].vote_remaining, One)
    /\ \E b \in Ballots : df[b].vote_remaining = One

\* the entry of ballot b's row at rank pointer i, "exhausted" past the last
\* rank column
EntryAt(b, i) == IF i = K THEN "exhausted" ELSE ballot_records[b][i + 1]

TransferredFrom(tr, c) ==
    SumOver(tr, {k \in DOMAIN tr : k[1] = c})

\* the transfer record of the round a step appends is keyed by the places
\* the ballots of the candidates it decides end up in, and each entry is the
\* weight of the ballots that went there
RecordCoversBallots ==
    Len(rounds') = Len(rounds) + 1 =>
        LET r == rounds'[Len(rounds')]
            settled == skip_to_next_eligible_rank(df, winners \o losers)
            on(c) == {b \in Ballots : settled[b].cur_candidate = c}
            removed == SeqToSet(r.winners) \cup SeqToSet(r.losers)
        IN  /\ \A k \in DOMAIN r.transfers : k[1] \in removed
            /\ \A c \in removed :
                   /\ on(c) # {}
                   /\ {k[2] : k \in {j \in DOMAIN r.transfers : j[1] = c}}
                          = {df'[b].cur_candidate : b \in on(c)}
                   /\ \A k \in DOMAIN r.transfers :
                          k[1] = c =>
                              r.transfers[k] =
                                  sum_votes(df', {b \in on(c) : df'[b].cur_candidate = k[2]})

\* the entries with source X of the round a step appends add up to the
\* weight X's ballots carry after the round: X's total if X was eliminated,
\* X's total less the threshold if X was elected
RecordAddsUp ==
    Len(rounds') = Len(rounds) + 1 =>
        LET r == rounds'[Len(rounds')]
            settled == skip_to_next_eligible_rank(df, winners \o losers)
            on(c) == {b \in Ballots : settled[b].cur_candidate = c}
        IN  \A c \in SeqToSet(r.winners) \cup SeqToSet(r.losers) :
                /\ TransferredFrom(r.transfers, c) = sum_votes(df', on(c))
                /\ TransferredFrom(r.transfers, c) =
                       IF c \in SeqToSet(r.winners)
                       THEN Sub(r.vote_totals[c], r.vote_threshold)
                       ELSE r.vote_totals[c]

\* C24 as stated: in every round, for every candidate X the round elects or
\* eliminates, the transfer record's entries with source X cover exactly the
\* ballots that rested on X at the tally, and their weights add up to X's
\* total if X was eliminated and to X's total less the threshold if X was
\* elected, in either arithmetic.
C24_TransferRecordComplete ==
    [][RecordCoversBallots /\ RecordAddsUp]_vars

\* C24 as amended: the record covers the ballots in either arithmetic; the
\* entries add up to X's total, or to X's total less the threshold, in
\* exact-rational arithmetic.
C24_TransferRecordExact ==
    [][RecordCoversBallots /\ (~T_is_Decimal => RecordAddsUp)]_vars

\* in exact-rational arithmetic, a round whose winner's ballots went to two
\* places, and a round that eliminated a candidate and moved its ballots
C24_Witness ==
    /\ ~T_is_Decimal
    /\ \E i \in 1..Len(rounds) : \E c \in SeqToSet(rounds[i].winners) :
           Cardinality({k \in DOMAIN rounds[i].transfers : k[1] = c}) >= 2
    /\ \E i \in 1..Len(rounds) : \E c \in SeqToSet(rounds[i].losers) :
           \E k \in DOMAIN rounds[i].transfers : k[1] = c

\* the ballots of S carry in the ballot set after the weight they carry in
\* the ballot set before, multiplied by ratio
ScaledBy(before, after, S, ratio) ==
    \A b \in S : after[b].vote_remaining = T_mul(before[b].vote_remaining, ratio)

\* C25 for easyrcv's and pyrcv's tabulators: in every round that elects, for
\* each winner with total t and threshold q, t is not zero and every ballot
\* resting on the winner at the tally leaves the round with its weight
\* multiplied by (t - q) / t; in exact-rational arithmetic the weights of
\* those ballots then add up to t - q. The same holds of the scaling loop of
\* pyrcv's tabulate run on the round's tally.
C25_SurplusScaling ==
    [][Len(rounds') = Len(rounds) + 1 =>
          LET r == rounds'[Len(rounds')]
              q == r.vote_threshold
              settled == skip_to_next_eligible_rank(df, winners \o losers)
              on(c) == {b \in Ballots : settled[b].cur_candidate = c}
              pyrcv == pyrcv_scale_winners(settled, r.vote_totals, q, r.winners)
          IN  \A c \in SeqToSet(r.winners) :
                  LET t == r.vote_totals[c]
                      ratio == T_div(T_sub(t, q), t)
                  IN  /\ t # Zero
                      /\ ScaledBy(settled, df', on(c), ratio)
                      /\ ScaledBy(settled, pyrcv, on(c), ratio)
                      /\ ~T_is_Decimal =>
                             /\ sum_votes(df', on(c)) = Sub(t, q)
                             /\ sum_votes(pyrcv, on(c)) = Sub(t, q)]_vars

\* in exact-rational arithmetic, a round that elected a candidate on a
\* surplus that is no whole number of its ballots, so that each of its
\* ballots carries a proper fraction afterwards
C25_Witness ==
    /\ ~T_is_Decimal
    /\ \E i \in 1..Len(rounds) : \E c \in SeqToSet(rounds[i].winners) :
           /\ Less(rounds[i].vote_threshold, rounds[i].vote_totals[c])
           /\ \E b \in Ballots :
                  /\ ballot_records[b][1] = c
                  /\ Less(Zero, df[b].vote_remaining)
                  /\ df[b].vote_remaining =
                         Div(Sub(rounds[i].vote_totals[c], rounds[i].vote_threshold),
                             rounds[i].vote_totals[c])
                  /\ df[b].vote_remaining[2] > 2

\* C25 for the script src/tabulate.py: in every pass that elects, for each
\* winner with total t and threshold q, t is not zero, every ballot resting
\* on the winner when the votes are tallied leaves the pass with its weight
\* multiplied by (t - q) / t, and the weights of those ballots add up to
\* t - q.
C25_ScriptSurplusScaling ==
    [][Len(rounds') = Len(rounds) + 1 =>
          LET r == rounds'[Len(rounds')]
              q == r.vote_threshold
              settled == skip_cvrs_with_choices(
                             df, <<"undervote", "overvote", "UWI">> \o winners \o losers)
              on(c) == {b \in Ballots : settled[b].cur_candidate = c}
          IN  \A c \in SeqToSet(r.winners) :
                  LET t == r.vote_totals[c]
                  IN  /\ t # Zero
                      /\ ScaledBy(settled, df', on(c), Div(Sub(t, q), t))
                      /\ sum_votes(df', on(c)) = Sub(t, q)]_vars

\* what holds of the ballots when a settling call returns: no ballot rests
\* on a label of the ineligible set, no pointer has passed the "exhausted"
\* column, no ballot was advanced more than K times, and a ballot that was
\* exhausted already was not advanced
SettledPast(ineligible) ==
    \A b \in Ballots :
        /\ df'[b].cur_candidate \notin ineligible
        /\ df'[b].cur_rank_i <= K
        /\ df'[b].cur_rank_i - df[b].cur_rank_i \in 0..K
        /\ df[b].cur_candidate = "exhausted" => df'[b] = df[b]
        /\ df'[b].cur_candidate = choice_lookup(b, df'[b].cur_rank_i)

\* C26: settling returns, whatever list of candidates it is called with and
\* wherever the ballots rest: skip_to_next_eligible_rank (and pyrcv's
\* skip_cvrs_with_choices) advances each ballot at most K times, never past
\* exhaustion, and on return no ballot's current candidate is in the
\* ineligible set.
C26_SettlingTerminates ==
    [][/\ \A ignore_candidates \in CandidateLists :
              Settle(ignore_candidates) =>
                  SettledPast({"undervote", "overvote"} \cup SeqToSet(ignore_candidates))
       /\ \A decided \in CandidateLists :
              PyrcvSettle(decided) =>
                  SettledPast({"undervote", "overvote", "UWI"} \cup SeqToSet(decided))]_vars

\* a settling call has returned with a ballot that ranked candidates only
\* advanced K times to exhaustion, and another ballot at rest on a candidate
C26_Witness ==
    /\ pc = "settled"
    /\ \E b \in Ballots :
           /\ \A i \in 1..K : ballot_records[b][i] \in Candidates
           /\ df[b].cur_rank_i = K
           /\ df[b].cur_candidate = "exhausted"
    /\ \E b \in Ballots : df[b].cur_candidate \in Candidates

\* TabulatorConfig.candidates of the tables above (config.py 22, 104-116):
\* the undeclared write-in label is flagged excluded
config_candidates ==
    <<[name |-> "A", excluded |-> FALSE],
      [name |-> "B", excluded |-> FALSE],
      [name |-> "UWI", excluded |-> TRUE]>>

Excluded ==
    {config_candidates[i].name :
        i \in {j \in 1..Len(config_candidates) : config_candidates[j].excluded}}

\* C27: a candidate flagged excluded, the write-in label "UWI" here, is
\* never eligible: once the ballots are settled none rests on it, it has no
\* entry in any round's vote totals, and it is never elected or eliminated.
C27_ExcludedNeverEligible ==
    /\ \A i \in 1..Len(rounds) :
           /\ DOMAIN rounds[i].vote_totals \cap Excluded = {}
           /\ SeqToSet(rounds[i].winners) \cap Excluded = {}
           /\ SeqToSet(rounds[i].losers) \cap Excluded = {}
    /\ (SeqToSet(winners) \cup SeqToSet(losers)) \cap Excluded = {}

\* C28: every round appended by tabulate decides at least one candidate:
\* its winners list or its losers list is non-empty.
C28_EveryRoundDecides ==
    \A i \in 1..Len(rounds) :
        rounds[i].winners # <<>> \/ rounds[i].losers # <<>>

\* the candidates of round i's tally that round i neither elects nor eliminates
Contending(i) ==
    DOMAIN rounds[i].vote_totals
        \ (SeqToSet(rounds[i].winners) \cup SeqToSet(rounds[i].losers))

\* C29: a candidate that round N tallies and leaves undecided is tallied in
\* round N+1 as well, with a vote total no smaller than in round N.
C29_ContendingTotalsNeverDrop ==
    \A i \in 1..(Len(rounds) - 1) :
        \A c \in Contending(i) :
            /\ c \in DOMAIN rounds[i + 1].vote_totals
            /\ Leq(rounds[i].vote_totals[c], rounds[i + 1].vote_totals[c])

\* a round elected a candidate with a surplus, and in the next round one
\* contending candidate has gained a fraction of a vote from the transfer
\* while another has the total it had
C29_Witness ==
    \E i \in 1..(Len(rounds) - 1) :
        /\ rounds[i].winners # <<>>
        /\ \E c \in Contending(i) :
               /\ Less(rounds[i].vote_totals[c], rounds[i + 1].vote_totals[c])
               /\ rounds[i + 1].vote_totals[c][2] # 1
        /\ \E c \in Contending(i) :
               rounds[i].vote_totals[c] = rounds[i + 1].vote_totals[c]

====
